---- MODULE Spec2Model ----
(***************************************************************************)
(* Model of agentops/llm_tracker.py: class LlmTracker.                     *)
(*                                                                         *)
(* The tracker patches methods of the openai module (method interceptor),  *)
(* and folds atomic responses and streamed chunks into Events handed to    *)
(* the client (the sink).  Python values are modelled as tagged records,   *)
(* a text as a sequence, so that += is concatenation.                      *)
(***************************************************************************)
EXTENDS Integers, Sequences, FiniteSets, TLC

\* ------------------------------------------------------------------ bounds
MaxVerPart == 2      \* version components range over 0..MaxVerPart
MaxInstalls == 2     \* override_api calls in one behaviour
MaxCalls == 2        \* LLM calls in one behaviour
MaxChunks == 2       \* chunks pulled from upstream, all calls together

\* ------------------------------------------------- python values and helpers
None == "None"

NoneVal == [t |-> "None", s |-> <<>>]

Str(s) == [t |-> "str", s |-> s]

\* ---------------------------------------------------------------- registry
\* LlmTracker.SUPPORTED_APIS: provider -> version -> method paths, in order
SUPPORTED_APIS ==
    [openai |-> [v100 |-> << "chat.completions.create" >>,
                 v000 |-> << "ChatCompletion.create", "ChatCompletion.acreate" >>]]

SupportedNames == {"openai"}

\* the version keys of SUPPORTED_APIS['openai'] as packaging.version parses them
RegisteredVersions == {<<1, 0, 0>>, <<0, 0, 0>>}

PathsOf(v) == IF v = <<1, 0, 0>> THEN SUPPORTED_APIS.openai.v100
              ELSE SUPPORTED_APIS.openai.v000

MethodPaths == {"chat.completions.create", "ChatCompletion.create", "ChatCompletion.acreate"}

\* the class attributes patched by the constructor
ClassSlots == {"Completions.create", "AsyncCompletions.create"}

Slots == MethodPaths \cup ClassSlots

\* provider names override_api is asked for
ApiNames == {"openai", "anthropic"}

NoVersion == <<>>

ModuleVersions ==
    {<<a, b, c>> : a \in 0..MaxVerPart, b \in 0..MaxVerPart, c \in {0}} \cup {<<0, 5, 0>>}

\* packaging.version ordering of release triples:  a >= b
VersionGeq(a, b) ==
    \/ a[1] > b[1]
    \/ a[1] = b[1] /\ a[2] > b[2]
    \/ a[1] = b[1] /\ a[2] = b[2] /\ a[3] >= b[3]

\* the sort without reverse=True
RECURSIVE SortedAsc(_)
SortedAsc(S) ==
    IF S = {} THEN <<>>
    ELSE LET m == CHOOSE x \in S : \A y \in S : VersionGeq(y, x)
         IN  <<m>> \o SortedAsc(S \ {m})

\* sorted(SUPPORTED_APIS[api], key=parse, reverse=True)
RECURSIVE SortedDesc(_)
SortedDesc(S) ==
    IF S = {} THEN <<>>
    ELSE LET m == CHOOSE x \in S : \A y \in S : VersionGeq(x, y)
         IN  <<m>> \o SortedDesc(S \ {m})

VARIABLES
    module_version,   \* openai.__version__ as a release triple, or NoVersion
    present,          \* the method paths that resolve on the openai module
    imported,         \* sys.modules, restricted to ApiNames
    attr,             \* slot -> wrapper layers over the original, outermost first
    last,             \* outcome of the latest override_api call
    installs,         \* number of override_api calls so far
    event_stream,     \* LlmTracker.event_stream: None or the open Event
    sink,             \* the Events handed to client.record, in order
    clock,            \* the next value get_ISO_time() returns
    calls,            \* per call: kwargs, response, steps taken, stream position
    last_chunk        \* history: the call of the latest chunk pulled, whether
                      \* handling it entered an except clause, and the steps
                      \* of pulling it

vars == <<module_version, present, imported, attr, last, installs,
          event_stream, sink, clock, calls, last_chunk>>

installVars == <<module_version, present, imported, attr, last, installs>>

callVars == <<event_stream, sink, clock, calls, last_chunk>>

\* ------------------------------------------------------ method interceptor
\* inspect.iscoroutinefunction of the original (unpatched) attribute
OriginalIsCoroutine(slot) == slot \in {"ChatCompletion.acreate", "AsyncCompletions.create"}

\* inspect.iscoroutinefunction of a wrapper layer
LayerIsCoroutine(layer) == layer = "async_method"

\* inspect.iscoroutinefunction(original_method) for the current value of a slot
IsCoroutineFunction(layers, slot) ==
    IF layers = <<>> THEN OriginalIsCoroutine(slot) ELSE LayerIsCoroutine(Head(layers))

\* wrap_method: a coroutine wrapper for a coroutine function, a plain one otherwise
wrap_method(layers, slot) ==
    IF IsCoroutineFunction(layers, slot) THEN <<"async_method">> \o layers
    ELSE <<"sync_method">> \o layers

\* the loop going on to the next path after one that does not resolve
RECURSIVE override_methods_continue(_, _, _)
override_methods_continue(paths, a, pres) ==
    IF paths = <<>> THEN [attr |-> a, outcome |-> "ok"]
    ELSE IF Head(paths) \notin pres
    THEN [attr |-> override_methods_continue(Tail(paths), a, pres).attr,
          outcome |-> "AttributeError"]
    ELSE override_methods_continue(Tail(paths),
                          [a EXCEPT ![Head(paths)] = wrap_method(a[Head(paths)], Head(paths))],
                          pres)

\* _override_method for every path of a set, in order; getattr raises
\* AttributeError at the first path that does not resolve and the loop stops
RECURSIVE override_methods(_, _, _)
override_methods(paths, a, pres) ==
    IF paths = <<>> THEN [attr |-> a, outcome |-> "ok"]
    ELSE IF Head(paths) \notin pres THEN [attr |-> a, outcome |-> "AttributeError"]
    ELSE override_methods(Tail(paths),
                          [a EXCEPT ![Head(paths)] = wrap_method(a[Head(paths)], Head(paths))],
                          pres)

\* the version loop of override_api: first registered version, newest first,
\* that the module version is >= ; NoVersion when there is none
RECURSIVE SelectVersion(_, _)
SelectVersion(sorted, mv) ==
    IF sorted = <<>> THEN NoVersion
    ELSE IF VersionGeq(mv, Head(sorted)) THEN Head(sorted)
    ELSE SelectVersion(Tail(sorted), mv)

\* the method-path set override_api installs for the module
SelectedPaths(mv) ==
    IF mv # NoVersion
    THEN LET v == SelectVersion(SortedDesc(RegisteredVersions), mv)
         IN  IF v = NoVersion THEN <<>> ELSE PathsOf(v)
    ELSE SUPPORTED_APIS.openai.v000

\* override_api without the check against SUPPORTED_APIS
override_api_unchecked(api, a, mv, pres, mods) ==
    IF api \in mods
    THEN LET r == override_methods(SelectedPaths(mv), a, pres)
         IN  [attr |-> r.attr, outcome |-> r.outcome, paths |-> SelectedPaths(mv)]
    ELSE [attr |-> a, outcome |-> "skipped", paths |-> <<>>]

\* override_api(api): result as [attr, outcome, paths]
override_api(api, a, mv, pres, mods) ==
    IF api \in mods
    THEN IF api \notin SupportedNames
         THEN [attr |-> a, outcome |-> "ValueError", paths |-> <<>>]
         ELSE LET r == override_methods(SelectedPaths(mv), a, pres)
              IN  [attr |-> r.attr, outcome |-> r.outcome, paths |-> SelectedPaths(mv)]
    ELSE [attr |-> a, outcome |-> "skipped", paths |-> <<>>]

\* state of the patched attributes after LlmTracker.__init__
InitAttr(pres) ==
    [s \in Slots |->
        IF s = "Completions.create" THEN <<"patched_function">>
        ELSE IF s = "AsyncCompletions.create" THEN <<"patched_async_function">>
        ELSE IF s = "chat.completions.create" /\ s \in pres THEN <<"patched_function">>
        ELSE <<>>]

\* ------------------------------------------------------------------ events
Unset == -1

\* the value of event_stream when no stream is open (Python None)
NoEvent == [event_type |-> None, call |-> 0, content |-> NoneVal, finish_reason |-> None,
            model |-> None, init_timestamp |-> Unset, end_timestamp |-> Unset]

\* Event(...): 'call' stands for params and prompt, both taken from the kwargs
\* of one call
Event(type, c, content, finish, model, ts) ==
    [event_type |-> type, call |-> c, content |-> content, finish_reason |-> finish,
     model |-> model, init_timestamp |-> ts, end_timestamp |-> Unset]

\* 'if finish_reason:' taken for every chunk
TruthyAlways(fr) == TRUE

\* Python truthiness of a finish_reason
Truthy(fr) == fr \notin {None, ""}

\* ------------------------------------------------------------------ chunks
Absent == [t |-> "absent", s |-> <<>>]

\* the text of the i-th chunk of call c, when it has one: every text is
\* different, so a content shows which chunks are in it and in which order
TokenOf(c, i) == <<10 * c + i>>

\* delta without 'content', delta with content null, delta with a text
TokenVals(c, i) == {Absent, NoneVal, Str(TokenOf(c, i))}

\* choices[0]['finish_reason'] of a chunk of call c: null, or the reason the
\* stream of that call ends with
FinishVals(c) == {None, IF c = 1 THEN "stop" ELSE "length"}

\* a chunk without the keys handle_stream_chunk reads
BadChunk == [shape |-> "bad", token |-> Absent, finish |-> None, model |-> None]

Chunks(c, i) ==
    {BadChunk} \cup
    [shape : {"mapping"}, token : TokenVals(c, i), finish : FinishVals(c), model : {"gpt"}]

\* choices[0]['delta'].get('content', '')
GetContent(chunk) == IF chunk.token = Absent THEN Str(<<>>) ELSE chunk.token

\* the accumulator re-attributing the open Event to the call of every chunk
\* it appends
handle_stream_chunk_reattribute(chunk, c, kw, init_timestamp, sinkOk, st) ==
    LET failed == [st EXCEPT !.raised = TRUE]
        token == GetContent(chunk)
        finish_reason == chunk.finish
    IN  IF chunk.shape # "mapping" THEN failed
        ELSE IF st.es = NoEvent /\ ~kw.messages THEN failed
        ELSE IF st.es # NoEvent /\ ~(st.es.content.t = "str" /\ token.t = "str") THEN failed
        ELSE LET es1 == IF st.es = NoEvent
                        THEN Event("openai stream", c, token, None, chunk.model, init_timestamp)
                        ELSE [st.es EXCEPT !.content = Str(@.s \o token.s), !.call = c]
             IN  IF ~Truthy(finish_reason)
                 THEN [st EXCEPT !.es = es1]
                 ELSE LET es2 == [es1 EXCEPT !.finish_reason = finish_reason,
                                             !.end_timestamp = st.clock]
                      IN  IF sinkOk
                          THEN [st EXCEPT !.es = NoEvent, !.sink = Append(@, es2),
                                          !.clock = @ + 1]
                          ELSE [st EXCEPT !.es = es2, !.clock = @ + 1, !.raised = TRUE,
                                          !.rejected = TRUE]

\* the Stream Accumulator.  st = [es, sink, clock, raised, rejected]; returns
\* st after the chunk, raised set when the except clause was entered and
\* rejected when it was client.record that raised
handle_stream_chunk(chunk, c, kw, init_timestamp, sinkOk, st) ==
    LET failed == [st EXCEPT !.raised = TRUE]
        token == GetContent(chunk)
        finish_reason == chunk.finish
    IN  IF chunk.shape # "mapping" THEN failed
        ELSE IF st.es = NoEvent /\ ~kw.messages THEN failed
        ELSE IF st.es # NoEvent /\ ~(st.es.content.t = "str" /\ token.t = "str") THEN failed
        ELSE LET es1 == IF st.es = NoEvent
                        THEN Event("openai stream", c, token, None, chunk.model, init_timestamp)
                        ELSE [st.es EXCEPT !.content = Str(@.s \o token.s)]
             IN  IF ~Truthy(finish_reason)
                 THEN [st EXCEPT !.es = es1]
                 ELSE LET es2 == [es1 EXCEPT !.finish_reason = finish_reason,
                                             !.end_timestamp = st.clock]
                      IN  IF sinkOk
                          THEN [st EXCEPT !.es = NoEvent, !.sink = Append(@, es2),
                                          !.clock = @ + 1]
                          ELSE [st EXCEPT !.es = es2, !.clock = @ + 1, !.raised = TRUE,
                                          !.rejected = TRUE]

\* ------------------------------------------------------ response normalizer
\* response.choices[0].message of the c-th call, when it has one
MessageOf(c) == <<100 + c>>

\* the raw results of the original method: atomic responses and streams
Responses(c) ==
    [kind : {"object"}, message : {MessageOf(c)}, observers : {<<>>}, co : {FALSE}] \cup
    [kind : {"malformed", "generator", "asyncgen"}, message : {<<>>},
     observers : {<<>>}, co : {FALSE}]

IsStream(val) == ~val.co /\ val.kind \in {"generator", "asyncgen"}

\* the try block of the atomic branch: Event(...) is built from response.object,
\* response.choices[0].message, response.model and kwargs['messages'], then
\* handed to client.record.  exc: an exception left the block
record_response(val, c, kw, init_timestamp, sinkOk, snk) ==
    IF val.co \/ val.kind # "object" \/ ~kw.messages
    THEN [sink |-> snk, exc |-> TRUE, rejected |-> FALSE]
    ELSE IF ~sinkOk
    THEN [sink |-> snk, exc |-> TRUE, rejected |-> TRUE]
    ELSE [sink |-> Append(snk, Event("chat.completion", c,
                                     [t |-> "message", s |-> val.message],
                                     "NoKey", "gpt", init_timestamp)),
          exc |-> FALSE, rejected |-> FALSE]

\* the atomic branch without its try/except, the stream branches as they are
handle_response_openai_noexcept(val, c, kw, init_timestamp, sinkOk, snk) ==
    IF IsStream(val)
    THEN [val |-> [val EXCEPT !.observers = Append(@, init_timestamp)],
          sink |-> snk, raised |-> FALSE, rejected |-> FALSE]
    ELSE LET r == record_response(val, c, kw, init_timestamp, sinkOk, snk)
         IN  [val |-> val, sink |-> r.sink, raised |-> r.exc, rejected |-> r.rejected]

\* _handle_response_openai.  A stream gets one more generator() around it, whose
\* handle_stream_chunk closes over kwargs and init_timestamp; anything else is
\* parsed as an atomic response inside try/except, and returned.
\* Result: [val, sink, raised, rejected], raised: an exception reaches the caller
handle_response_openai(val, c, kw, init_timestamp, sinkOk, snk) ==
    IF IsStream(val)
    THEN [val |-> [val EXCEPT !.observers = Append(@, init_timestamp)],
          sink |-> snk, raised |-> FALSE, rejected |-> FALSE]
    ELSE LET r == record_response(val, c, kw, init_timestamp, sinkOk, snk)
         IN  [val |-> val, sink |-> r.sink, raised |-> FALSE, rejected |-> r.rejected]

\* handle_response of _override_method, installed for api = 'openai' only
handle_response(val, c, kw, init_timestamp, sinkOk, snk) ==
    handle_response_openai(val, c, kw, init_timestamp, sinkOk, snk)

\* one step of a call: get_ISO_time(), the original method invoked, the
\* normalizer called with (val, kw, ts), a layer returning val; depth is the
\* number of layers from the one taking the step down to the original
Step(op, depth, ts, val, kw) == [op |-> op, depth |-> depth, ts |-> ts, val |-> val, kw |-> kw]

\* the wrappers reading the timestamp after the wrapped method has returned,
\* as the constructor's patches do
RECURSIVE Invoke_timestamp_after_call(_, _, _, _, _, _, _)
Invoke_timestamp_after_call(layers, slot, resp, c, kw, sinkOk, st) ==
    IF layers = <<>>
    THEN [st EXCEPT !.val = [resp EXCEPT !.co = OriginalIsCoroutine(slot)],
                    !.steps = Append(@, Step("original", 0, Unset, resp, kw))]
    ELSE LET inner == Invoke_timestamp_after_call(Tail(layers), slot, resp, c, kw, sinkOk, st)
             depth == Len(layers)
             init_timestamp == inner.clock
         IN  IF Head(layers) \in {"sync_method", "async_method"}
             THEN LET response == IF Head(layers) = "async_method"
                                  THEN [inner.val EXCEPT !.co = FALSE]
                                  ELSE inner.val
                      h == handle_response(response, c, kw, init_timestamp, sinkOk, inner.sink)
                      ret == [h.val EXCEPT !.co = (Head(layers) = "async_method")]
                  IN  [inner EXCEPT !.val = ret, !.sink = h.sink, !.clock = @ + 1,
                                    !.raised = inner.raised \/ h.raised,
                                    !.rejected = inner.rejected \/ h.rejected,
                                    !.steps = @ \o <<Step("get_ISO_time", depth,
                                                          init_timestamp, resp, kw),
                                                     Step("handle_response", depth,
                                                          init_timestamp, response, kw),
                                                     Step("return", depth, Unset, h.val, kw)>>]
             ELSE LET h == handle_response_openai(inner.val, c, kw, init_timestamp, sinkOk,
                                                  inner.sink)
                  IN  [inner EXCEPT !.sink = h.sink, !.clock = @ + 1,
                                    !.raised = inner.raised \/ h.raised,
                                    !.rejected = inner.rejected \/ h.rejected,
                                    !.steps = @ \o <<Step("get_ISO_time", depth,
                                                          init_timestamp, inner.val, kw),
                                                     Step("handle_response", depth,
                                                          init_timestamp, inner.val, kw),
                                                     Step("return", depth, Unset,
                                                          inner.val, kw)>>]

\* One call through the layers of a slot, outermost first, down to the
\* original method.  st = [val, sink, clock, raised, rejected, steps]
RECURSIVE Invoke(_, _, _, _, _, _, _)
Invoke(layers, slot, resp, c, kw, sinkOk, st) ==
    IF layers = <<>>
    THEN \* the original method: a coroutine function returns a coroutine
         [st EXCEPT !.val = [resp EXCEPT !.co = OriginalIsCoroutine(slot)],
                    !.steps = Append(@, Step("original", 0, Unset, resp, kw))]
    ELSE IF Head(layers) \in {"sync_method", "async_method"}
    THEN \* init_timestamp = get_ISO_time(); response = [await] original(...)
         LET init_timestamp == st.clock
             depth == Len(layers)
             inner == Invoke(Tail(layers), slot, resp, c, kw, sinkOk,
                             [st EXCEPT !.clock = @ + 1,
                                        !.steps = Append(@, Step("get_ISO_time", depth,
                                                                 init_timestamp, resp, kw))])
             response == IF Head(layers) = "async_method"
                         THEN [inner.val EXCEPT !.co = FALSE]
                         ELSE inner.val
             h == handle_response(response, c, kw, init_timestamp, sinkOk, inner.sink)
             ret == [h.val EXCEPT !.co = (Head(layers) = "async_method")]
         IN  [inner EXCEPT !.val = ret,
                           !.sink = h.sink,
                           !.raised = inner.raised \/ h.raised,
                           !.rejected = inner.rejected \/ h.rejected,
                           !.steps = @ \o <<Step("handle_response", depth, init_timestamp,
                                                 response, kw),
                                            Step("return", depth, Unset, h.val, kw)>>]
    ELSE \* patched_function: result = original_create(...); the normalizer's
         \* return value is dropped and result is returned
         LET inner == Invoke(Tail(layers), slot, resp, c, kw, sinkOk, st)
             depth == Len(layers)
             h == handle_response_openai(inner.val, c, kw, inner.clock, sinkOk, inner.sink)
         IN  [inner EXCEPT !.sink = h.sink, !.clock = @ + 1,
                           !.raised = inner.raised \/ h.raised,
                           !.rejected = inner.rejected \/ h.rejected,
                           !.steps = @ \o <<Step("get_ISO_time", depth, inner.clock,
                                                 inner.val, kw),
                                            Step("handle_response", depth, inner.clock,
                                                 inner.val, kw),
                                            Step("return", depth, Unset, inner.val, kw)>>]

\* generator() with the yield inside handle_stream_chunk's try block: a chunk
\* that fails to parse is not yielded
RECURSIVE generator_yield_in_try(_, _, _, _, _, _)
generator_yield_in_try(observers, chunk, c, kw, sinkOk, st) ==
    IF observers = <<>> THEN st
    ELSE LET h == handle_stream_chunk(chunk, c, kw, Head(observers), sinkOk,
                                      [es |-> st.es, sink |-> st.sink, clock |-> st.clock,
                                       raised |-> FALSE, rejected |-> st.rejected])
         IN  generator_yield_in_try(Tail(observers), chunk, c, kw, sinkOk,
                       [st EXCEPT !.es = h.es, !.sink = h.sink, !.clock = h.clock,
                                  !.raised = st.raised \/ h.raised,
                                  !.rejected = h.rejected,
                                  !.yielded = IF h.raised THEN <<>> ELSE @])

\* one step of pulling a chunk: the caller's next(), the chunk taken from
\* upstream, a layer feeding it to handle_stream_chunk, a layer yielding it,
\* the caller receiving it.  layer: the generator() layers from the one taking
\* the step out to the caller; recorded: the Events in the sink at that step
ChunkStep(op, layer, recorded, chunk) ==
    [op |-> op, layer |-> layer, recorded |-> recorded, chunk |-> chunk]

\* generator() yielding the chunk before feeding it to handle_stream_chunk
RECURSIVE generator_yield_first(_, _, _, _, _, _)
generator_yield_first(observers, chunk, c, kw, sinkOk, st) ==
    IF observers = <<>> THEN st
    ELSE LET h == handle_stream_chunk(chunk, c, kw, Head(observers), sinkOk,
                                      [es |-> st.es, sink |-> st.sink, clock |-> st.clock,
                                       raised |-> st.raised, rejected |-> st.rejected])
         IN  generator_yield_first(Tail(observers), chunk, c, kw, sinkOk,
                       [st EXCEPT !.es = h.es, !.sink = h.sink, !.clock = h.clock,
                                  !.raised = h.raised, !.rejected = h.rejected,
                                  !.steps = @ \o
                                      <<ChunkStep("yield", Len(observers), Len(st.sink), chunk),
                                        ChunkStep("handle_stream_chunk", Len(observers),
                                                  Len(h.sink), chunk)>>])

\* the generator() layers around a stream, innermost first: each feeds the
\* chunk to its handle_stream_chunk and then yields it
RECURSIVE generator(_, _, _, _, _, _)
generator(observers, chunk, c, kw, sinkOk, st) ==
    IF observers = <<>> THEN st
    ELSE LET h == handle_stream_chunk(chunk, c, kw, Head(observers), sinkOk,
                                      [es |-> st.es, sink |-> st.sink, clock |-> st.clock,
                                       raised |-> st.raised, rejected |-> st.rejected])
         IN  generator(Tail(observers), chunk, c, kw, sinkOk,
                       [st EXCEPT !.es = h.es, !.sink = h.sink, !.clock = h.clock,
                                  !.raised = h.raised, !.rejected = h.rejected,
                                  !.steps = @ \o
                                      <<ChunkStep("handle_stream_chunk", Len(observers),
                                                  Len(h.sink), chunk),
                                        ChunkStep("yield", Len(observers), Len(h.sink),
                                                  chunk)>>])

NoChunk == [call |-> 0, raised |-> FALSE, steps |-> <<>>]

NCalls == Len(calls)

RECURSIVE SumLen(_)
SumLen(cs) == IF cs = <<>> THEN 0 ELSE Len(Head(cs).upstream) + SumLen(Tail(cs))

\* chunks pulled so far, all calls together
NChunks == SumLen(calls)

IsTerminal(chunk) == chunk.shape = "mapping" /\ chunk.finish # None

\* a terminal chunk of the call has been pulled
Finished(call) == \E i \in 1..Len(call.upstream) : IsTerminal(call.upstream[i])

\* the slots a caller can call through: the method paths of the module and,
\* on a client object of a current module, the two resource classes
Callable == present \cup (IF module_version # NoVersion THEN ClassSlots ELSE {})

\* an async stream comes from a coroutine original, a sync one from a plain one
ResponsesOf(slot, c) ==
    {r \in Responses(c) : /\ r.kind = "asyncgen" => OriginalIsCoroutine(slot)
                          /\ r.kind = "generator" => ~OriginalIsCoroutine(slot)}

\* the caller calls the method at a slot; the value it gets (after awaiting a
\* coroutine) is ret
StartCall(slot, kw, resp, sinkOk) ==
    /\ NCalls < MaxCalls
    /\ LET c == NCalls + 1
           r == Invoke(attr[slot], slot, resp, c, kw, sinkOk,
                       [val |-> resp, sink |-> sink, clock |-> clock, raised |-> FALSE,
                        rejected |-> FALSE, steps |-> <<>>])
           ret == [r.val EXCEPT !.co = FALSE]
       IN  /\ sink' = r.sink
           /\ clock' = r.clock
           /\ calls' = Append(calls,
                  [slot |-> slot, layers |-> attr[slot], kwargs |-> kw, response |-> resp,
                   ret |-> ret, raised |-> r.raised, steps |-> r.steps,
                   rejected |-> r.rejected, interleaved |-> FALSE,
                   empty_at_start |-> (event_stream = NoEvent),
                   status |-> IF IsStream(ret) THEN "streaming" ELSE "returned",
                   upstream |-> <<>>, delivered |-> <<>>])
    /\ UNCHANGED <<event_stream, last_chunk>>
    /\ UNCHANGED installVars

\* the caller pulls the next element of the value a call returned
Pull(c, chunk, sinkOk) ==
    /\ c \in 1..NCalls
    /\ calls[c].status = "streaming"
    /\ NChunks < MaxChunks
    /\ LET r == generator(calls[c].ret.observers, chunk, c, calls[c].kwargs, sinkOk,
                          [es |-> event_stream, sink |-> sink, clock |-> clock,
                           raised |-> FALSE, rejected |-> FALSE, yielded |-> <<chunk>>,
                           steps |-> <<ChunkStep("next", 0, Len(sink), NoneVal),
                                       ChunkStep("pull", Len(calls[c].ret.observers) + 1,
                                                 Len(sink), chunk)>>])
       IN  /\ event_stream' = r.es
           /\ sink' = r.sink
           /\ clock' = r.clock
           /\ calls' = [d \in 1..NCalls |->
                  IF d = c
                  THEN [calls[c] EXCEPT !.upstream = Append(@, chunk),
                                        !.delivered = @ \o r.yielded,
                                        !.rejected = @ \/ r.rejected]
                  ELSE [calls[d] EXCEPT !.interleaved =
                            @ \/ (calls[d].status = "streaming" /\ ~Finished(calls[d]))]]
           /\ last_chunk' = [call |-> c, raised |-> r.raised,
                             steps |-> r.steps \o
                                 [i \in 1..Len(r.yielded) |->
                                     ChunkStep("receive", 0, Len(r.sink), r.yielded[i])]]
    /\ UNCHANGED installVars

\* the caller stops iterating a stream it has taken chunks from, before a
\* terminal chunk has arrived
Abandon(c) ==
    /\ c \in 1..NCalls
    /\ calls[c].status = "streaming"
    /\ calls[c].upstream # <<>>
    /\ ~Finished(calls[c])
    /\ calls' = [calls EXCEPT ![c].status = "abandoned"]
    /\ UNCHANGED <<event_stream, sink, clock, last_chunk>>
    /\ UNCHANGED installVars

Kwargs == [messages : BOOLEAN]

NoLast == [api |-> None, outcome |-> None, paths |-> <<>>, pre |-> InitAttr({})]

OverrideApi(api) ==
    /\ installs < MaxInstalls
    /\ LET r == override_api(api, attr, module_version, present, imported)
       IN  /\ attr' = r.attr
           /\ last' = [api |-> api, outcome |-> r.outcome, paths |-> r.paths, pre |-> attr]
    /\ installs' = installs + 1
    /\ UNCHANGED <<module_version, present, imported>>
    /\ UNCHANGED callVars

InitCalls ==
    /\ event_stream = NoEvent
    /\ sink = <<>>
    /\ clock = 0
    /\ calls = <<>>
    /\ last_chunk = NoChunk

\* installation only: any module version, any set of resolving paths
InitInstall ==
    /\ module_version \in ModuleVersions \cup {NoVersion}
    /\ present \in SUBSET MethodPaths
    /\ imported \in SUBSET ApiNames
    /\ attr = InitAttr(present)
    /\ last = NoLast
    /\ installs = 0
    /\ InitCalls

NextInstall == \E api \in ApiNames : OverrideApi(api)

SpecInstall == InitInstall /\ [][NextInstall]_vars

\* the tracker at work: the openai module is imported; it is a current (1.x)
\* module or a legacy (unversioned) one, with the method paths of its kind
Init ==
    /\ \/ module_version = <<1, 0, 0>> /\ present = {"chat.completions.create"}
       \/ module_version = NoVersion
          /\ present = {"ChatCompletion.create", "ChatCompletion.acreate"}
    /\ imported = {"openai"}
    /\ attr = InitAttr(present)
    /\ last = NoLast
    /\ installs = 0
    /\ InitCalls

Next ==
    \/ OverrideApi("openai")
    \/ \E slot \in Callable, kw \in Kwargs, sinkOk \in BOOLEAN :
          \E resp \in ResponsesOf(slot, NCalls + 1) : StartCall(slot, kw, resp, sinkOk)
    \/ \E c \in 1..NCalls, sinkOk \in BOOLEAN :
          \E chunk \in Chunks(c, Len(calls[c].upstream) + 1) : Pull(c, chunk, sinkOk)
    \/ \E c \in 1..NCalls : Abandon(c)

Spec == Init /\ [][Next]_vars

\* atomic calls only: no stream is opened, the accumulator stays idle
NextAtomic ==
    \/ OverrideApi("openai")
    \/ \E slot \in Callable, kw \in Kwargs, sinkOk \in BOOLEAN :
          \E resp \in {r \in Responses(NCalls + 1) : ~IsStream(r)} :
              StartCall(slot, kw, resp, sinkOk)

SpecAtomic == Init /\ [][NextAtomic]_vars

\* calls only, atomic and streamed, of which no chunk is pulled
NextCalls ==
    \/ OverrideApi("openai")
    \/ \E slot \in Callable, kw \in Kwargs, sinkOk \in BOOLEAN :
          \E resp \in ResponsesOf(slot, NCalls + 1) : StartCall(slot, kw, resp, sinkOk)

SpecCalls == Init /\ [][NextCalls]_vars

Range(seq) == {seq[i] : i \in 1..Len(seq)}

\* ---------------------------------------------------------- calls and events
\* the positions in the sink of the Events that carry the kwargs of call c
EventsOf(c) == {i \in 1..Len(sink) : sink[i].call = c}

Atomic(call) == ~IsStream(call.response)

\* the call went through a wrapper installed by _override_method
ThroughOverride(call) ==
    \E i \in 1..Len(call.layers) : call.layers[i] \in {"sync_method", "async_method"}

\* the call went through a patch installed by the constructor
ThroughPatch(call) ==
    \E i \in 1..Len(call.layers) :
        call.layers[i] \in {"patched_function", "patched_async_function"}

\* the texts of the chunks that have one, in arrival order
RECURSIVE Texts(_)
Texts(chunks) ==
    IF chunks = <<>> THEN <<>>
    ELSE (IF Head(chunks).shape = "mapping" /\ Head(chunks).token.t = "str"
          THEN Head(chunks).token.s ELSE <<>>) \o Texts(Tail(chunks))

\* the caller has consumed the stream through exactly one terminal chunk
ConsumedThroughTerminal(call) ==
    /\ call.upstream # <<>>
    /\ IsTerminal(call.upstream[Len(call.upstream)])
    /\ \A i \in 1..(Len(call.upstream) - 1) : ~IsTerminal(call.upstream[i])

\* C1: a streamed call through one wrapper of _override_method, started with
\* the open-stream slot empty, not interleaved with another stream and consumed
\* through exactly one terminal chunk has exactly one Event in the sink, whose
\* content is the concatenation of the chunk tokens in arrival order and whose
\* finish_reason is the terminal chunk's.  Stated for calls that carry
\* 'messages', whose chunks all have the keys read, with a sink that accepts.
C1_OneEventPerStream ==
    \A c \in 1..NCalls :
        LET call == calls[c] IN
        (/\ IsStream(call.response) /\ ThroughOverride(call)
         /\ Len(call.ret.observers) = 1
         /\ call.kwargs.messages /\ ~call.rejected
         /\ call.empty_at_start /\ ~call.interleaved
         /\ ConsumedThroughTerminal(call)
         /\ \A i \in 1..Len(call.upstream) : call.upstream[i].shape = "mapping")
        => /\ Cardinality(EventsOf(c)) = 1
           /\ \A i \in EventsOf(c) :
                /\ sink[i].content = Str(Texts(call.upstream))
                /\ sink[i].finish_reason = call.upstream[Len(call.upstream)].finish

\* C2: the value a wrapper of _override_method returns is the original's
\* response itself for an atomic response, and for a stream a pass-through
\* that has yielded exactly the chunks pulled from upstream, in order, parse
\* failures included; no exception of the tracker reaches the caller.
C2_Transparency ==
    \A c \in 1..NCalls :
        LET call == calls[c] IN
        ThroughOverride(call) =>
            /\ ~call.raised
            /\ Atomic(call) => call.ret = call.response
            /\ IsStream(call.response) =>
                  /\ call.ret.kind = call.response.kind
                  /\ call.delivered = call.upstream

C2_Witness ==
    \E c \in 1..NCalls :
        /\ ThroughOverride(calls[c]) /\ IsStream(calls[c].response)
        /\ Len(calls[c].delivered) = 2
        /\ calls[c].delivered[1] = BadChunk
        /\ last_chunk.call = c /\ last_chunk.raised

\* C3: an atomic successful call through the installed instrumentation
\* (wrappers of override_api, the constructor's Completions.create patch) has
\* exactly one Event in the sink, its content the response's message.
C3_ExactlyOneEvent ==
    \A c \in 1..NCalls :
        LET call == calls[c] IN
        (/\ Atomic(call) /\ call.response.kind = "object"
         /\ call.kwargs.messages /\ ~call.rejected
         /\ call.layers # <<>>
         /\ \A i \in 1..Len(call.layers) :
               call.layers[i] \in {"sync_method", "async_method", "patched_function"})
        => /\ Cardinality(EventsOf(c)) = 1
           /\ \A i \in EventsOf(c) :
                sink[i].content = [t |-> "message", s |-> call.response.message]

\* an Event with the kwargs of call c, one of its tokens, or its start timestamp
CarriesCall(e, c) ==
    \/ e.call = c
    \/ \E i \in 1..Len(calls[c].upstream) : TokenOf(c, i)[1] \in Range(e.content.s)
    \/ \E i \in 1..Len(calls[c].ret.observers) :
          e.init_timestamp = calls[c].ret.observers[i]

\* C4: for a streamed call abandoned before a terminal chunk, no Event with
\* its kwargs, tokens or start timestamp is in the sink, at abandonment or
\* after any later call.  Stated for calls during whose iteration no chunk of
\* another stream was handled.
C4_AbandonedNeverRecorded ==
    \A c \in 1..NCalls :
        (calls[c].status = "abandoned" /\ ~calls[c].interleaved) =>
            \A i \in 1..Len(sink) : ~CarriesCall(sink[i], c)

\* C5: every call through the constructor's patches is captured: an atomic
\* response, or a stream consumed through its terminal chunk, has an Event in
\* the sink.
C5_PatchedCallsCaptured ==
    \A c \in 1..NCalls :
        LET call == calls[c] IN
        (/\ ThroughPatch(call) /\ call.kwargs.messages /\ ~call.rejected
         /\ \/ Atomic(call) /\ call.response.kind = "object"
            \/ /\ IsStream(call.response) /\ ConsumedThroughTerminal(call)
               /\ \A i \in 1..Len(call.upstream) :
                     /\ call.upstream[i].shape = "mapping"
                     /\ call.upstream[i].token # NoneVal)
        => EventsOf(c) # {}

\* C6: a chunk whose handling fails is still forwarded, no Event is recorded
\* for it, and the open-stream slot with its Event is as before the chunk.
\* Stated for streams with one generator() layer.
C6_FailedChunkLeavesState ==
    [][(/\ NChunks' = NChunks + 1
        /\ last_chunk'.raised
        /\ Len(calls'[last_chunk'.call].ret.observers) = 1)
       => /\ event_stream' = event_stream
          /\ sink' = sink
          /\ calls'[last_chunk'.call].delivered = calls'[last_chunk'.call].upstream]_vars

\* C7: an atomic response without the expected shape, or a call without
\* 'messages': nothing is raised into the caller, no Event is recorded for the
\* call and the caller gets the raw response.
C7_MalformedAtomic ==
    \A c \in 1..NCalls :
        LET call == calls[c] IN
        (Atomic(call) /\ (call.response.kind = "malformed" \/ ~call.kwargs.messages))
        => /\ ~call.raised
           /\ EventsOf(c) = {}
           /\ call.ret = call.response

C7_Witness ==
    \E c, d \in 1..NCalls :
        /\ Atomic(calls[c]) /\ calls[c].response.kind = "malformed"
        /\ calls[c].kwargs.messages /\ ThroughOverride(calls[c])
        /\ Atomic(calls[d]) /\ calls[d].response.kind = "object"
        /\ ~calls[d].kwargs.messages /\ ThroughPatch(calls[d])
        /\ sink = <<>>

\* ------------------------------------------------------------ installation

\* the attributes the latest override_api call changed
Changed == {s \in Slots : attr[s] # last.pre[s]}

\* the newest registered version that is <= mv, stated without the loop
NewestRegisteredLeq(mv) ==
    CHOOSE v \in RegisteredVersions :
        /\ VersionGeq(mv, v)
        /\ \A w \in RegisteredVersions : VersionGeq(mv, w) => VersionGeq(v, w)

LegacySet == << "ChatCompletion.create", "ChatCompletion.acreate" >>

CurrentSet == << "chat.completions.create" >>

\* C8: override_api('openai') on an imported module installs the method-path
\* set of the newest registered version <= the declared version (1.2.0 and
\* 1.0.0 give the 1.0.0 set, 0.5.0 the 0.0.0 set), the 0.0.0 set when no
\* version is declared, and only paths of that one set are wrapped.
C8_VersionResolution ==
    (last.api = "openai" /\ last.outcome \in {"ok", "AttributeError"}) =>
        /\ module_version # NoVersion =>
                last.paths = PathsOf(NewestRegisteredLeq(module_version))
        /\ module_version = NoVersion => last.paths = LegacySet
        /\ module_version \in {<<1, 2, 0>>, <<1, 0, 0>>} => last.paths = CurrentSet
        /\ module_version = <<0, 5, 0>> => last.paths = LegacySet
        /\ Changed \subseteq Range(last.paths)
        /\ last.outcome = "ok" => Changed = Range(last.paths)
        /\ last.paths \in {LegacySet, CurrentSet}

C8_Witness ==
    /\ last.api = "openai" /\ last.outcome = "ok"
    /\ module_version = <<1, 2, 0>>
    /\ Changed = {"chat.completions.create"}

\* C9 as stated: override_api for a provider without a registry entry always
\* fails with the unsupported-provider error and installs nothing, imported
\* or not.
C9_AlwaysFails ==
    (last.api # None /\ last.api \notin SupportedNames) =>
        (last.outcome = "ValueError" /\ attr = last.pre)

\* C9 amended: it fails with the error when the provider's module is in
\* sys.modules; when it is not, the call returns without an error; nothing
\* is installed in either case.
C9_FailsWhenImported ==
    (last.api # None /\ last.api \notin SupportedNames) =>
        /\ attr = last.pre
        /\ last.api \in imported => last.outcome = "ValueError"
        /\ last.api \notin imported => last.outcome = "skipped"

C9_Witness ==
    /\ last.api = "anthropic" /\ "anthropic" \in imported
    /\ last.outcome = "ValueError"

\* C10 as stated: when a path of the selected set does not resolve, the
\* attribute error surfaces and every attribute holds its pre-call value.
C10_NothingInstalled ==
    last.outcome = "AttributeError" => attr = last.pre

\* C10 amended: when a path of the selected set does not resolve, the
\* attribute error surfaces; the paths of the set before the first one that
\* does not resolve have been wrapped once by the call, that path, the paths
\* after it and every attribute outside the set hold their pre-call value.
C10_PrefixInstalled ==
    last.outcome = "AttributeError" =>
        \E i \in 1..Len(last.paths) :
            /\ last.paths[i] \notin present
            /\ \A j \in 1..(i - 1) :
                   /\ last.paths[j] \in present
                   /\ Len(attr[last.paths[j]]) = Len(last.pre[last.paths[j]]) + 1
                   /\ Tail(attr[last.paths[j]]) = last.pre[last.paths[j]]
            /\ \A s \in Slots :
                   (\A j \in 1..(i - 1) : last.paths[j] # s) => attr[s] = last.pre[s]

C10_Witness ==
    /\ last.outcome = "AttributeError"
    /\ "ChatCompletion.acreate" \in present
    /\ "ChatCompletion.create" \notin present
    /\ last.paths = LegacySet

\* ------------------------------------------------------- stream hand-off
\* the positions in the sink' of the Events a step hands to the sink
Handed == (Len(sink) + 1)..Len(sink')

\* C11: every Event of a stream in the sink has a non-null finish_reason and an
\* end timestamp not earlier than its start timestamp; the end timestamp is read
\* in the step that hands the Event over, after that step the open-stream slot
\* is empty, and a chunk arriving at an empty slot opens an Event of its own
\* call, with a start timestamp of that call.
C11_HandOff ==
    /\ [](\A i \in 1..Len(sink) :
             sink[i].event_type = "openai stream" =>
                /\ sink[i].finish_reason # None
                /\ sink[i].end_timestamp # Unset
                /\ sink[i].end_timestamp >= sink[i].init_timestamp)
    /\ [][\A i \in Handed :
             sink'[i].event_type = "openai stream" =>
                /\ event_stream' = NoEvent
                /\ sink'[i].end_timestamp >= clock
                /\ sink'[i].end_timestamp < clock'
                /\ sink'[i].finish_reason = calls'[last_chunk'.call].upstream[
                        Len(calls'[last_chunk'.call].upstream)].finish]_vars
    /\ [][(event_stream = NoEvent /\ event_stream' # NoEvent) =>
             /\ event_stream'.call = last_chunk'.call
             /\ event_stream'.init_timestamp \in
                    Range(calls'[last_chunk'.call].ret.observers)]_vars

\* an Event of call 1 has been handed over and a chunk of call 2 has opened
\* the next one
C11_Witness ==
    /\ Len(sink) = 1
    /\ sink[1].event_type = "openai stream" /\ sink[1].call = 1
    /\ sink[1].finish_reason = "stop"
    /\ event_stream # NoEvent /\ event_stream.call = 2

\* --------------------------------------------------- interleaved streams
\* the calls that have a token in the content of a stream Event
CallsIn(e) == {c \in 1..NCalls : \E i \in 1..MaxChunks : TokenOf(c, i)[1] \in Range(e.content.s)}

\* the Event holds tokens of two calls
Merged(e) == e.event_type = "openai stream" /\ Cardinality(CallsIn(e)) >= 2

\* C12: an Event whose content holds tokens of two calls carries the kwargs
\* and the start timestamp of one call only, though it holds a token of
\* another call: the start timestamp is the one the wrapper of the call of its
\* kwargs read, and of no other call.
C12_MergedAttribution ==
    \A k \in 1..Len(sink) :
        Merged(sink[k]) =>
            LET e == sink[k] IN
            /\ e.call \in 1..NCalls
            /\ CallsIn(e) \ {e.call} # {}
            /\ e.init_timestamp \in Range(calls[e.call].ret.observers)
            /\ \A d \in (1..NCalls) \ {e.call} :
                  e.init_timestamp \notin Range(calls[d].ret.observers)

\* two streams consumed in turn, neither abandoned: the terminal chunk of
\* call 2 hands over the Event of call 1 with the tokens of both
C12_Witness ==
    /\ NCalls = 2
    /\ calls[1].status = "streaming" /\ calls[2].status = "streaming"
    /\ calls[1].interleaved
    /\ Len(sink) = 1
    /\ sink[1].call = 1
    /\ sink[1].content = Str(TokenOf(1, 1) \o TokenOf(2, 1))
    /\ sink[1].init_timestamp \in Range(calls[1].ret.observers)
    /\ sink[1].init_timestamp \notin Range(calls[2].ret.observers)

\* ------------------------------------------------------- wrapper layers
\* the wrappers of _override_method among the layers of a call
OverrideLayers(call) ==
    {i \in 1..Len(call.layers) : call.layers[i] \in {"sync_method", "async_method"}}

\* the positions in the steps of a call where the original method is invoked
Originals(call) == {i \in 1..Len(call.steps) : call.steps[i].op = "original"}

\* C13: after _override_method has been applied k >= 1 times to a method path,
\* one atomic call through that path (well-formed response, 'messages' given,
\* the sink accepting) invokes the original method once, returns the original
\* response, and records k Events.
C13_KEvents ==
    \A c \in 1..NCalls :
        LET call == calls[c] IN
        (/\ call.slot \in MethodPaths
         /\ Cardinality(OverrideLayers(call)) >= 1
         /\ Atomic(call) /\ call.response.kind = "object"
         /\ call.kwargs.messages /\ ~call.rejected)
        => /\ Cardinality(Originals(call)) = 1
           /\ call.ret = call.response
           /\ Cardinality(EventsOf(c)) = Cardinality(OverrideLayers(call))

\* the positions of the steps of one kind that the layer at a depth takes
StepsAt(call, op, depth) ==
    {i \in 1..Len(call.steps) : call.steps[i].op = op /\ call.steps[i].depth = depth}

\* the layers beneath the one at a depth
Beneath(call, depth) == SubSeq(call.layers, Len(call.layers) - depth + 2, Len(call.layers))

\* what the method a layer wraps returns: the original's response, a coroutine
\* when the original is a coroutine function, or what the layer beneath returns
Returned(call, depth) ==
    IF depth = 1
    THEN [call.response EXCEPT !.co = OriginalIsCoroutine(call.slot)]
    ELSE LET v == call.steps[CHOOSE i \in StepsAt(call, "return", depth - 1) : TRUE].val
         IN  [v EXCEPT !.co = LayerIsCoroutine(call.layers[Len(call.layers) - depth + 2])]

\* C14: in every invocation of a wrapper of _override_method the start
\* timestamp is read once, then the wrapped method is invoked once with the
\* kwargs received, then the normalizer is called once with the raw result
\* (awaited in a coroutine wrapper), the kwargs and that timestamp, and its
\* return value is what the wrapper returns; the wrapper is a coroutine
\* function exactly when the method it wraps is.
C14_WrapperSteps ==
    \A c \in 1..NCalls :
        LET call == calls[c] IN
        \A d \in 1..Len(call.layers) :
            LET layer == call.layers[Len(call.layers) - d + 1] IN
            layer \in {"sync_method", "async_method"} =>
                /\ Cardinality(StepsAt(call, "get_ISO_time", d)) = 1
                /\ Cardinality(StepsAt(call, "handle_response", d)) = 1
                /\ Cardinality(StepsAt(call, "return", d)) = 1
                /\ Cardinality(Originals(call)) = 1
                /\ LET t == CHOOSE i \in StepsAt(call, "get_ISO_time", d) : TRUE
                       h == CHOOSE i \in StepsAt(call, "handle_response", d) : TRUE
                       r == CHOOSE i \in StepsAt(call, "return", d) : TRUE
                       raw == Returned(call, d)
                   IN  /\ t < h /\ r = h + 1
                       /\ \A i \in 1..Len(call.steps) :
                             call.steps[i].depth < d <=> (t < i /\ i < h)
                       /\ \A i \in (t + 1)..(h - 1) : call.steps[i].kw = call.kwargs
                       /\ call.steps[h].kw = call.kwargs
                       /\ call.steps[h].ts = call.steps[t].ts
                       /\ call.steps[h].val =
                             IF layer = "async_method" THEN [raw EXCEPT !.co = FALSE] ELSE raw
                       /\ call.steps[r].val =
                             handle_response(call.steps[h].val, c, call.kwargs,
                                             call.steps[t].ts, TRUE, <<>>).val
                       /\ d = Len(call.layers) => call.ret = call.steps[r].val
                /\ LayerIsCoroutine(layer) <=> IsCoroutineFunction(Beneath(call, d), call.slot)

\* a streamed call through two coroutine wrappers and an atomic call through
\* two plain ones
C14_Witness ==
    \E c, d \in 1..NCalls :
        /\ calls[c].layers = <<"async_method", "async_method">>
        /\ calls[c].ret.kind = "asyncgen" /\ Len(calls[c].ret.observers) = 2
        /\ calls[d].layers = <<"sync_method", "sync_method">>
        /\ calls[d].response.kind = "object" /\ Cardinality(EventsOf(d)) = 2

\* ------------------------------------------------- stream pass-through
\* the positions of the steps of one kind in the pulling of a chunk
OpsAt(tr, op) == {p \in 1..Len(tr) : tr[p].op = op}

\* C15: when the caller asks a stream wrapper for the next element, one chunk
\* is taken from upstream, after the request; every generator() layer,
\* innermost first, feeds that chunk to its handle_stream_chunk and then yields
\* it; the Events the accumulator hands over for the chunk, the stream's Event
\* at its terminal chunk among them, are in the sink when the layer yields
\* and when the caller receives the chunk; a call pulls nothing from upstream,
\* and no other step does.
C15_PullOrder ==
    /\ [][NChunks' = NChunks + 1 =>
            LET c == last_chunk'.call
                tr == last_chunk'.steps
                k == Len(calls'[c].ret.observers)
                chunk == calls'[c].upstream[Len(calls'[c].upstream)]
            IN  /\ Len(calls'[c].upstream) = Len(calls[c].upstream) + 1
                /\ \A d \in (1..NCalls) \ {c} : calls'[d].upstream = calls[d].upstream
                /\ Len(tr) = 2 * k + 3
                /\ OpsAt(tr, "next") = {1} /\ tr[1].recorded = Len(sink)
                /\ OpsAt(tr, "pull") = {2} /\ tr[2].chunk = chunk
                /\ OpsAt(tr, "receive") = {Len(tr)}
                /\ tr[Len(tr)].chunk = chunk
                /\ tr[Len(tr)].recorded = Len(sink')
                /\ \A j \in 1..k :
                      LET fed == tr[2 * j + 1]
                          yielded == tr[2 * j + 2]
                      IN  /\ fed.op = "handle_stream_chunk" /\ fed.layer = k - j + 1
                          /\ yielded.op = "yield" /\ yielded.layer = k - j + 1
                          /\ fed.chunk = chunk /\ yielded.chunk = chunk
                          /\ yielded.recorded = fed.recorded
                          /\ fed.recorded >= tr[2 * j].recorded
                /\ \A i \in Handed :
                      \E p \in OpsAt(tr, "handle_stream_chunk") :
                          /\ tr[p - 1].recorded < i /\ i <= tr[p].recorded
                          /\ tr[p + 1].op = "yield" /\ tr[p + 1].recorded >= i]_vars
    /\ [][NChunks' = NChunks =>
            \A c \in 1..NCalls : calls'[c].upstream = calls[c].upstream]_vars
    /\ [][NCalls' = NCalls + 1 => calls'[NCalls'].upstream = <<>>]_vars

\* a stream through two generator() layers: its terminal chunk has been fed to
\* both, each has handed an Event to the sink, and the caller has received it
C15_Witness ==
    /\ last_chunk.call # 0
    /\ Len(last_chunk.steps) = 7
    /\ IsTerminal(last_chunk.steps[7].chunk)
    /\ last_chunk.steps[7].op = "receive"
    /\ last_chunk.steps[1].recorded = 0
    /\ last_chunk.steps[3].recorded = 1
    /\ last_chunk.steps[7].recorded = 2
    /\ Len(sink) = 2

====
